---------------------------- MODULE Spec2Model ----------------------------
(***************************************************************************)
(* A model of fastawc (src/fastawc/fastawc.cpp): the scalar and the AVX2   *)
(* counting engines as operators over byte sequences, an engine harness    *)
(* that feeds both engines the same chunks (SpecEng), and the per-source   *)
(* loop of main (Spec).                                                    *)
(*                                                                         *)
(* Bytes are integers 0..255.  The counters are uint64_t in the source;    *)
(* every value reached here is far below 2^64, so no counter wraps.        *)
(* The AVX2 lane is 32 bytes wide in the source.  The model keeps the lane *)
(* algorithm (mask, shift with carry-in, population count, scalar tail)    *)
(* and scales the lane to LaneWidth bytes, with masks LaneWidth bits wide, *)
(* so that every lane content can be enumerated.                           *)
(***************************************************************************)
EXTENDS Integers, Sequences, FiniteSets, TLC

----------------------------------------------------------------------------
(* Bounds of the model.                                                    *)

\* Width of one vector lane in bytes (32 in the source), and of its masks in bits.
LaneWidth == 2

\* Longest stream the engine harness builds from the byte alphabet.
MaxStream == 4

----------------------------------------------------------------------------
(* Bit arithmetic on naturals, as the C operators &, |, <<, ~ act on       *)
(* unsigned values of LaneWidth bits.                                      *)

RECURSIVE Pow2(_)
Pow2(n) == IF n = 0 THEN 1 ELSE 2 * Pow2(n - 1)

RECURSIVE BitAnd(_, _)
BitAnd(a, b) ==
    IF a = 0 \/ b = 0 THEN 0
    ELSE (a % 2) * (b % 2) + 2 * BitAnd(a \div 2, b \div 2)

RECURSIVE BitOr(_, _)
BitOr(a, b) ==
    IF a = 0 THEN b
    ELSE IF b = 0 THEN a
    ELSE (IF a % 2 = 1 \/ b % 2 = 1 THEN 1 ELSE 0) + 2 * BitOr(a \div 2, b \div 2)

\* ~x on a mask of LaneWidth bits
BitNot(x) == (Pow2(LaneWidth) - 1) - x

\* x << 1 on a mask of LaneWidth bits: the top bit is shifted out
Shl1(x) == (2 * x) % Pow2(LaneWidth)

----------------------------------------------------------------------------
(* Data model.                                                             *)

\* struct Counts, value-initialised
Counts ==
    [lineCount |-> 0, wordCount |-> 0, byteCount |-> 0, charCount |-> 0,
     maxLineLength |-> 0]

\* struct ScalarState, value-initialised
ScalarState == [prevSpace |-> TRUE, currentLineLength |-> 0]

\* struct Avx2State, value-initialised (prevSpace is a uint8_t)
Avx2State == [prevSpace |-> 1, currentLineLength |-> 0]

\* struct Options, value-initialised (filesFrom is not modelled: the names
\* it loads are appended to files)
Options ==
    [optLines |-> FALSE, optWords |-> FALSE, optBytes |-> FALSE,
     optChars |-> FALSE, optMaxLine |-> FALSE, useAvx2 |-> FALSE,
     files |-> <<>>]

\* struct DisplayFlags, value-initialised
DisplayFlags ==
    [lines |-> FALSE, words |-> FALSE, bytes |-> FALSE, chars |-> FALSE,
     maxLine |-> FALSE]

\* struct Reader as constructed (POSIX build): no descriptor yet
Reader == [isStdin |-> FALSE, fd |-> -1]

\* The five selection flags handed to the engines, every combination.
FlagSets ==
    [countLines : BOOLEAN, countWords : BOOLEAN, countBytes : BOOLEAN,
     countChars : BOOLEAN, countMaxLine : BOOLEAN]

----------------------------------------------------------------------------
(* Byte classifier.                                                        *)

\* Variant of isSpaceAscii whose switch lacks the case for '\v'.
isSpaceAsciiNoVT(c) == c \in {32, 10, 9, 13, 12}

isSpaceAscii(c) == c \in {32, 10, 9, 13, 11, 12}

\* Variant of isUtf8Lead that takes only 7-bit bytes for lead bytes.
isUtf8LeadAsciiOnly(c) == BitAnd(c, 128) = 0

isUtf8Lead(c) == BitAnd(c, 192) # 128

----------------------------------------------------------------------------
(* Scalar engine.                                                          *)

\* Variant of ScalarByte whose running line length counts every byte, also
\* when chars are counted.
ScalarByteLineBytes(c, out, st, fl) ==
    LET o1 == IF fl.countLines /\ c = 10
              THEN [out EXCEPT !.lineCount = @ + 1] ELSE out
        space == isSpaceAscii(c)
        o2 == IF fl.countWords /\ ~space /\ st.prevSpace
              THEN [o1 EXCEPT !.wordCount = @ + 1] ELSE o1
        s2 == [st EXCEPT !.prevSpace = space]
        o3 == IF fl.countChars /\ isUtf8Lead(c)
              THEN [o2 EXCEPT !.charCount = @ + 1] ELSE o2
        s3 == IF fl.countMaxLine
              THEN [s2 EXCEPT !.currentLineLength = @ + 1] ELSE s2
        fold == fl.countMaxLine /\ c = 10
        o4 == IF fold /\ s3.currentLineLength > o3.maxLineLength
              THEN [o3 EXCEPT !.maxLineLength = s3.currentLineLength] ELSE o3
        s4 == IF fold THEN [s3 EXCEPT !.currentLineLength = 0] ELSE s3
    IN  [out |-> o4, st |-> s4]

\* One iteration of processScalar's loop on byte c.
ScalarByte(c, out, st, fl) ==
    LET o1 == IF fl.countLines /\ c = 10
              THEN [out EXCEPT !.lineCount = @ + 1] ELSE out
        space == isSpaceAscii(c)
        o2 == IF fl.countWords /\ ~space /\ st.prevSpace
              THEN [o1 EXCEPT !.wordCount = @ + 1] ELSE o1
        s2 == [st EXCEPT !.prevSpace = space]
        o3 == IF fl.countChars /\ isUtf8Lead(c)
              THEN [o2 EXCEPT !.charCount = @ + 1] ELSE o2
        s3 == IF fl.countChars
              THEN IF isUtf8Lead(c) /\ fl.countMaxLine
                   THEN [s2 EXCEPT !.currentLineLength = @ + 1] ELSE s2
              ELSE IF fl.countMaxLine
                   THEN [s2 EXCEPT !.currentLineLength = @ + 1] ELSE s2
        fold == fl.countMaxLine /\ c = 10
        o4 == IF fold /\ s3.currentLineLength > o3.maxLineLength
              THEN [o3 EXCEPT !.maxLineLength = s3.currentLineLength] ELSE o3
        s4 == IF fold THEN [s3 EXCEPT !.currentLineLength = 0] ELSE s3
    IN  [out |-> o4, st |-> s4]

RECURSIVE ScalarLoop(_, _, _, _, _)
ScalarLoop(buf, i, out, st, fl) ==
    IF i > Len(buf) THEN [out |-> out, st |-> st]
    ELSE LET r == ScalarByte(buf[i], out, st, fl)
         IN  ScalarLoop(buf, i + 1, r.out, r.st, fl)

\* Variant of processScalar that forgets the carried whitespace flag at the
\* start of every chunk.
processScalarResetCarry(buf, out, st, fl) ==
    LET o0 == IF fl.countBytes
              THEN [out EXCEPT !.byteCount = @ + Len(buf)] ELSE out
    IN  ScalarLoop(buf, 1, o0, [st EXCEPT !.prevSpace = TRUE], fl)

processScalar(buf, out, st, fl) ==
    LET o0 == IF fl.countBytes
              THEN [out EXCEPT !.byteCount = @ + Len(buf)] ELSE out
    IN  ScalarLoop(buf, 1, o0, st, fl)

\* Variant of finalizeScalar that does not fold the running line length.
finalizeScalarNoFold(out, st, countMaxLine) == out

finalizeScalar(out, st, countMaxLine) ==
    IF countMaxLine /\ st.currentLineLength > out.maxLineLength
    THEN [out EXCEPT !.maxLineLength = st.currentLineLength]
    ELSE out


----------------------------------------------------------------------------
(* AVX2 engine.  A lane v is a sequence of LaneWidth bytes; bit k of a     *)
(* mask stands for byte k of the lane (v[k + 1]).                          *)

RECURSIVE popcnt32(_)
popcnt32(x) == IF x = 0 THEN 0 ELSE (x % 2) + popcnt32(x \div 2)

RECURSIVE EqBits(_, _, _)
EqBits(v, ch, k) ==
    IF k >= Len(v) THEN 0
    ELSE (IF v[k + 1] = ch THEN Pow2(k) ELSE 0) + EqBits(v, ch, k + 1)

\* _mm256_cmpeq_epi8 against a broadcast byte, then _mm256_movemask_epi8
eqMask32(v, ch) == EqBits(v, ch, 0)

whitespaceMask32(v) ==
    BitOr(eqMask32(v, 32),
    BitOr(eqMask32(v, 10),
    BitOr(eqMask32(v, 9),
    BitOr(eqMask32(v, 13),
    BitOr(eqMask32(v, 11), eqMask32(v, 12))))))

\* Variant of Avx2Words that shifts the whitespace mask without inserting
\* the carried-in bit of the previous lane.
Avx2WordsNoCarry(v, out, st) ==
    LET wsm == whitespaceMask32(v)
        prev == Shl1(wsm)
        startMask == BitAnd(BitNot(wsm), prev)
    IN  [out |-> [out EXCEPT !.wordCount = @ + popcnt32(startMask)],
         st |-> [st EXCEPT !.prevSpace = (wsm \div Pow2(LaneWidth - 1)) % 2]]

\* The word-start mask of one lane and the carry it leaves, with the
\* carried-in whitespace bit inserted at the low end of the shifted mask.
Avx2Words(v, out, st) ==
    LET wsm == whitespaceMask32(v)
        prev == BitOr(Shl1(wsm), IF st.prevSpace # 0 THEN 1 ELSE 0)
        startMask == BitAnd(BitNot(wsm), prev)
    IN  [out |-> [out EXCEPT !.wordCount = @ + popcnt32(startMask)],
         st |-> [st EXCEPT !.prevSpace = (wsm \div Pow2(LaneWidth - 1)) % 2]]

\* One iteration of the per-byte loop inside a full lane (k = 0 .. 31).
Avx2LaneByte(c, out, st, fl) ==
    LET lead == fl.countChars /\ isUtf8Lead(c)
        o1 == IF lead THEN [out EXCEPT !.charCount = @ + 1] ELSE out
        s1 == IF lead
              THEN IF fl.countMaxLine
                   THEN [st EXCEPT !.currentLineLength = @ + 1] ELSE st
              ELSE IF fl.countMaxLine /\ ~fl.countChars
                   THEN [st EXCEPT !.currentLineLength = @ + 1] ELSE st
        fold == fl.countMaxLine /\ c = 10
        o2 == IF fold /\ s1.currentLineLength > o1.maxLineLength
              THEN [o1 EXCEPT !.maxLineLength = s1.currentLineLength] ELSE o1
        s2 == IF fold THEN [s1 EXCEPT !.currentLineLength = 0] ELSE s1
    IN  [out |-> o2, st |-> s2]

RECURSIVE Avx2LaneLoop(_, _, _, _, _)
Avx2LaneLoop(v, k, out, st, fl) ==
    IF k >= Len(v) THEN [out |-> out, st |-> st]
    ELSE LET r == Avx2LaneByte(v[k + 1], out, st, fl)
         IN  Avx2LaneLoop(v, k + 1, r.out, r.st, fl)

\* Variant of Avx2Lane that adds the newline population count whether or
\* not lines are counted.
Avx2LaneAlwaysLines(v, out, st, fl) ==
    LET o1 == [out EXCEPT !.lineCount = @ + popcnt32(eqMask32(v, 10))]
        w == IF fl.countWords THEN Avx2Words(v, o1, st)
             ELSE [out |-> o1, st |-> st]
    IN  Avx2LaneLoop(v, 0, w.out, w.st, fl)

\* The body of the while loop of processAvx2 on one full lane v.
Avx2Lane(v, out, st, fl) ==
    LET o1 == IF fl.countLines
              THEN [out EXCEPT !.lineCount = @ + popcnt32(eqMask32(v, 10))]
              ELSE out
        w == IF fl.countWords THEN Avx2Words(v, o1, st)
             ELSE [out |-> o1, st |-> st]
    IN  Avx2LaneLoop(v, 0, w.out, w.st, fl)

\* One iteration of the tail loop of processAvx2 on byte c.
Avx2TailByte(c, out, st, fl) ==
    LET o1 == IF fl.countLines /\ c = 10
              THEN [out EXCEPT !.lineCount = @ + 1] ELSE out
        space == isSpaceAscii(c)
        o2 == IF fl.countWords /\ ~space /\ st.prevSpace # 0
              THEN [o1 EXCEPT !.wordCount = @ + 1] ELSE o1
        s2 == [st EXCEPT !.prevSpace = IF space THEN 1 ELSE 0]
        o3 == IF fl.countChars /\ isUtf8Lead(c)
              THEN [o2 EXCEPT !.charCount = @ + 1] ELSE o2
        s3 == IF fl.countChars
              THEN IF isUtf8Lead(c) /\ fl.countMaxLine
                   THEN [s2 EXCEPT !.currentLineLength = @ + 1] ELSE s2
              ELSE IF fl.countMaxLine
                   THEN [s2 EXCEPT !.currentLineLength = @ + 1] ELSE s2
        fold == fl.countMaxLine /\ c = 10
        o4 == IF fold /\ s3.currentLineLength > o3.maxLineLength
              THEN [o3 EXCEPT !.maxLineLength = s3.currentLineLength] ELSE o3
        s4 == IF fold THEN [s3 EXCEPT !.currentLineLength = 0] ELSE s3
    IN  [out |-> o4, st |-> s4]

\* The two loops of processAvx2 from offset i (zero-based) of buf.
RECURSIVE Avx2Loop(_, _, _, _, _)
Avx2Loop(buf, i, out, st, fl) ==
    IF i + LaneWidth <= Len(buf)
    THEN LET r == Avx2Lane(SubSeq(buf, i + 1, i + LaneWidth), out, st, fl)
         IN  Avx2Loop(buf, i + LaneWidth, r.out, r.st, fl)
    ELSE IF i < Len(buf)
    THEN LET r == Avx2TailByte(buf[i + 1], out, st, fl)
         IN  Avx2Loop(buf, i + 1, r.out, r.st, fl)
    ELSE [out |-> out, st |-> st]

processAvx2(buf, out, st, fl) ==
    LET o0 == IF fl.countBytes
              THEN [out EXCEPT !.byteCount = @ + Len(buf)] ELSE out
    IN  Avx2Loop(buf, 0, o0, st, fl)

\* Variant of finalizeAvx2 that counts one more unit for the open line.
finalizeAvx2OpenLinePlusOne(out, st, countMaxLine) ==
    IF countMaxLine /\ st.currentLineLength + 1 > out.maxLineLength
    THEN [out EXCEPT !.maxLineLength = st.currentLineLength + 1]
    ELSE out

finalizeAvx2(out, st, countMaxLine) ==
    IF countMaxLine /\ st.currentLineLength > out.maxLineLength
    THEN [out EXCEPT !.maxLineLength = st.currentLineLength]
    ELSE out

----------------------------------------------------------------------------
(* State.                                                                  *)

VARIABLES
    \* engine harness: both engines fed the same chunks of one stream
    fl,         \* the five selection flags of the run
    sOut,       \* Counts of the scalar engine
    sSt,        \* ScalarState
    aOut,       \* Counts of the AVX2 engine
    aSt,        \* Avx2State
    stream,     \* the bytes handed to the engines so far, in order
    lastCut,    \* length of the stream before the latest chunk
    hpc,        \* "run" while chunks arrive, "done" after finalization
    \* main
    args,       \* the command line: selected flags, -avx2, file operands
    opt,        \* Options, filled by parseOptions
    disp,       \* DisplayFlags
    pc,         \* position in main
    idx,        \* index of the for loop over opt.files (zero-based)
    r,          \* the Reader of the current iteration: isStdin, fd
    c,          \* Counts of the current source
    st,         \* ScalarState or Avx2State of the current source
    total,      \* running total
    haveTotal,  \* opt.files.size() > 1
    out,        \* rows written to stdout by printCounts, in order
    errs,       \* messages written to stderr, in order
    exitStatus, \* value returned by main; -1 while it runs
    outcome,    \* per source visited so far: how its open and read loop ended
    nreads,     \* non-empty reads of the current source so far
    nOpen,      \* descriptors this process holds open (not counting stdin)
    srcChunks,  \* the chunks read from the current source so far, in order
    nfinal      \* calls of finalizeScalar / finalizeAvx2 for the current source

hvars == <<fl, sOut, sSt, aOut, aSt, stream, lastCut, hpc>>

mvars == <<args, opt, disp, pc, idx, r, c, st, total, haveTotal, out, errs,
           exitStatus, outcome, nreads, nOpen, srcChunks, nfinal>>

vars == <<hvars, mvars>>

----------------------------------------------------------------------------
(* Inputs of the engine harness.                                           *)

\* One byte of each class the engines tell apart: newline, other
\* whitespace, a lead byte that is no whitespace, a continuation byte.
Bytes == {10, 32, 97, 169}

\* Sample streams with bytes outside the alphabet.
Hello == <<104, 195, 169, 108, 108, 111, 10>>      \* "h\xC3\xA9llo\n"
Abc == <<97, 98, 99>>                              \* "abc"
TwoSpaces == <<97, 32, 32, 98>>                    \* "a  b"
TabBetween == <<97, 9, 98>>                        \* "a\tb"
TwoNewlines == <<97, 10, 10, 98>>                  \* "a\n\nb"
AllSpaces == <<97, 9, 98, 13, 99, 11, 100, 12, 101>>   \* "a\tb\rc\vd\fe"

Samples == {Hello, Abc, TwoSpaces, TabBetween, TwoNewlines, AllSpaces}

BSeq(n) == UNION {[1..k -> Bytes] : k \in 0..n}

IsPrefix(p, s) == Len(p) <= Len(s) /\ SubSeq(s, 1, Len(p)) = p

\* The chunks that may follow the bytes read so far: any sequence over the
\* alphabet that keeps the stream within MaxStream (the empty one included),
\* or the next piece of a sample stream.
NextChunks(sofar) ==
    (IF Len(sofar) <= MaxStream THEN BSeq(MaxStream - Len(sofar)) ELSE {})
    \cup UNION {{SubSeq(s, Len(sofar) + 1, k) : k \in (Len(sofar) + 1)..Len(s)} :
                  s \in {x \in Samples : IsPrefix(sofar, x)}}
    \cup {<<>>}

----------------------------------------------------------------------------
(* The engine harness: one stream, cut into arbitrary chunks, through both *)
(* engines with the same flags, then finalized once.                       *)

\* main's variables at rest, while the harness runs
MainIdle ==
    /\ args = [sel |-> {}, avx2 |-> FALSE, files |-> <<>>]
    /\ opt = Options /\ disp = DisplayFlags
    /\ pc = "idle" /\ idx = 0 /\ r = Reader
    /\ c = Counts /\ st = ScalarState
    /\ total = Counts /\ haveTotal = FALSE
    /\ out = <<>> /\ errs = <<>> /\ exitStatus = -1
    /\ outcome = <<>> /\ nreads = 0 /\ nOpen = 0
    /\ srcChunks = <<>> /\ nfinal = 0

InitEng ==
    /\ MainIdle
    /\ fl \in FlagSets
    /\ sOut = Counts /\ sSt = ScalarState
    /\ aOut = Counts /\ aSt = Avx2State
    /\ stream = <<>> /\ lastCut = 0
    /\ hpc = "run"

EngChunk ==
    /\ hpc = "run"
    /\ \E chunk \in NextChunks(stream) :
        LET s == processScalar(chunk, sOut, sSt, fl)
            a == processAvx2(chunk, aOut, aSt, fl)
        IN  /\ sOut' = s.out /\ sSt' = s.st
            /\ aOut' = a.out /\ aSt' = a.st
            /\ stream' = stream \o chunk
            /\ lastCut' = Len(stream)
    /\ UNCHANGED <<fl, hpc>>
    /\ UNCHANGED mvars

EngFinalize ==
    /\ hpc = "run"
    /\ sOut' = finalizeScalar(sOut, sSt, fl.countMaxLine)
    /\ aOut' = finalizeAvx2(aOut, aSt, fl.countMaxLine)
    /\ hpc' = "done"
    /\ UNCHANGED <<fl, sSt, aSt, stream, lastCut>>
    /\ UNCHANGED mvars

NextEng == EngChunk \/ EngFinalize

SpecEng == InitEng /\ [][NextEng]_vars

----------------------------------------------------------------------------
(* main: option parsing, then one pass over opt.files.                     *)

\* Most file operands on the command line.
MaxFiles == 2

\* Most non-empty reads one source returns before it ends or fails.
MaxReads == 2

\* Command lines: which of -l -w -c -m -L are given, whether -avx2 is
\* given (the binary is built with AVX2), and the file operands.
ArgSelections == {{}, {"-L"}, {"-l", "-w", "-c", "-m", "-L"}}

Paths == {"-", "f"}

FileLists == UNION {[1..k -> Paths] : k \in 0..MaxFiles}

\* What one successful non-empty read may return: "ab\nc" and " \xC3\xA9".
ReadChunks == {<<97, 98, 10, 99>>, <<32, 195, 169>>}

\* Variant of parseOptions whose default applies whenever none of -l -w -c
\* is given, whatever -m and -L say.
parseOptionsDefaultIgnoresML(a) ==
    LET none == a.sel \cap {"-l", "-w", "-c"} = {}
    IN  [optLines |-> ("-l" \in a.sel) \/ none,
         optWords |-> ("-w" \in a.sel) \/ none,
         optBytes |-> ("-c" \in a.sel) \/ none,
         optChars |-> "-m" \in a.sel,
         optMaxLine |-> "-L" \in a.sel,
         useAvx2 |-> a.avx2,
         files |-> IF a.files = <<>> THEN <<"-">> ELSE a.files]

parseOptions(a) ==
    LET none == a.sel \cap {"-l", "-w", "-c", "-m", "-L"} = {}
    IN  [optLines |-> ("-l" \in a.sel) \/ none,
         optWords |-> ("-w" \in a.sel) \/ none,
         optBytes |-> ("-c" \in a.sel) \/ none,
         optChars |-> "-m" \in a.sel,
         optMaxLine |-> "-L" \in a.sel,
         useAvx2 |-> a.avx2,
         files |-> IF a.files = <<>> THEN <<"-">> ELSE a.files]

\* The flags main hands to the engines: disp.lines, disp.words, ...
EngineFlags(d) ==
    [countLines |-> d.lines, countWords |-> d.words, countBytes |-> d.bytes,
     countChars |-> d.chars, countMaxLine |-> d.maxLine]

\* The columns printCounts writes: the enabled counters, in this order.
Cols(cnt, d) ==
    (IF d.lines THEN <<cnt.lineCount>> ELSE <<>>)
    \o (IF d.words THEN <<cnt.wordCount>> ELSE <<>>)
    \o (IF d.bytes THEN <<cnt.byteCount>> ELSE <<>>)
    \o (IF d.chars THEN <<cnt.charCount>> ELSE <<>>)
    \o (IF d.maxLine THEN <<cnt.maxLineLength>> ELSE <<>>)

\* One row of output.  label is <<>> for a null label, else <<text>>.
\* src (the source the row is for, 0 for the total row) and cnt (the Counts
\* passed) are kept beside what is printed.
printCounts(cnt, label, d, src) ==
    [cols |-> Cols(cnt, d), label |-> label, src |-> src, cnt |-> cnt]

\* Variant of HaveTotal that asks for one file or more.
HaveTotalAtLeastOne(files) == Len(files) >= 1

\* bool haveTotal = (opt.files.size() > 1)
HaveTotal(files) == Len(files) > 1

Max(a, b) == IF a >= b THEN a ELSE b

\* Variant of AddTotal that adds maxLineLength like the other counters.
AddTotalSumMax(t, cnt) ==
    [lineCount |-> t.lineCount + cnt.lineCount,
     wordCount |-> t.wordCount + cnt.wordCount,
     byteCount |-> t.byteCount + cnt.byteCount,
     charCount |-> t.charCount + cnt.charCount,
     maxLineLength |-> t.maxLineLength + cnt.maxLineLength]

\* total.x += c.x for the four sums, std::max for maxLineLength
AddTotal(t, cnt) ==
    [lineCount |-> t.lineCount + cnt.lineCount,
     wordCount |-> t.wordCount + cnt.wordCount,
     byteCount |-> t.byteCount + cnt.byteCount,
     charCount |-> t.charCount + cnt.charCount,
     maxLineLength |-> Max(t.maxLineLength, cnt.maxLineLength)]

\* the harness's variables at rest, while main runs
EngIdle ==
    /\ fl = EngineFlags(DisplayFlags)
    /\ sOut = Counts /\ sSt = ScalarState
    /\ aOut = Counts /\ aSt = Avx2State
    /\ stream = <<>> /\ lastCut = 0
    /\ hpc = "idle"

Init ==
    /\ EngIdle
    /\ args \in [sel : ArgSelections, avx2 : BOOLEAN, files : FileLists]
    /\ opt = Options /\ disp = DisplayFlags
    /\ pc = "parse" /\ idx = 0 /\ r = Reader
    /\ c = Counts /\ st = ScalarState
    /\ total = Counts /\ haveTotal = FALSE
    /\ out = <<>> /\ errs = <<>> /\ exitStatus = -1
    /\ outcome = <<>> /\ nreads = 0 /\ nOpen = 0
    /\ srcChunks = <<>> /\ nfinal = 0

\* parseOptions succeeds; disp, total and haveTotal are set up.
ParseOptions ==
    /\ pc = "parse"
    /\ LET o == parseOptions(args)
       IN  /\ opt' = o
           /\ disp' = [lines |-> o.optLines, words |-> o.optWords,
                       bytes |-> o.optBytes, chars |-> o.optChars,
                       maxLine |-> o.optMaxLine]
           /\ haveTotal' = HaveTotal(o.files)
    /\ total' = Counts
    /\ idx' = 0
    /\ pc' = "loop"
    /\ UNCHANGED <<args, r, c, st, out, errs, exitStatus, outcome, nreads, nOpen>>
    /\ UNCHANGED <<srcChunks, nfinal>>
    /\ UNCHANGED hvars

\* Variant of StartSource whose engine state is declared outside the loop:
\* only the first source that opens starts from a fresh state.
StartSourceKeepState ==
    /\ c' = Counts
    /\ st' = IF \A i \in 1..Len(outcome) : outcome[i] = "open_failed"
             THEN IF opt.useAvx2 THEN Avx2State ELSE ScalarState
             ELSE st
    /\ nreads' = 0
    /\ srcChunks' = <<>>
    /\ nfinal' = 0
    /\ pc' = "read"

\* Counts c{} and the engine state of the branch taken, after a source opened
StartSource ==
    /\ c' = Counts
    /\ st' = IF opt.useAvx2 THEN Avx2State ELSE ScalarState
    /\ nreads' = 0
    /\ srcChunks' = <<>>
    /\ nfinal' = 0
    /\ pc' = "read"

\* path == "-": Reader r; r.openStdin()
OpenStdin ==
    /\ pc = "loop" /\ idx < Len(opt.files)
    /\ opt.files[idx + 1] = "-"
    /\ r' = [isStdin |-> TRUE, fd |-> -1]
    /\ StartSource
    /\ UNCHANGED <<args, opt, disp, idx, total, haveTotal, out, errs,
                   exitStatus, outcome, nOpen>>
    /\ UNCHANGED hvars

\* Reader r; r.openFile(path, err) returns true
OpenFileOk ==
    /\ pc = "loop" /\ idx < Len(opt.files)
    /\ opt.files[idx + 1] # "-"
    /\ r' = [isStdin |-> FALSE, fd |-> 3]
    /\ nOpen' = nOpen + 1
    /\ StartSource
    /\ UNCHANGED <<args, opt, disp, idx, total, haveTotal, out, errs,
                   exitStatus, outcome>>
    /\ UNCHANGED hvars

\* Variant of OpenFileFail that gives up on the whole run.
OpenFileFailAbort ==
    /\ pc = "loop" /\ idx < Len(opt.files)
    /\ opt.files[idx + 1] # "-"
    /\ r' = [isStdin |-> FALSE, fd |-> -1]
    /\ errs' = Append(errs, "cannot open")
    /\ outcome' = Append(outcome, "open_failed")
    /\ exitStatus' = 1
    /\ pc' = "done"
    /\ UNCHANGED <<args, opt, disp, idx, c, st, total, haveTotal, out,
                   nreads, nOpen>>
    /\ UNCHANGED <<srcChunks, nfinal>>
    /\ UNCHANGED hvars

\* Reader r; r.openFile(path, err) returns false: message, continue
OpenFileFail ==
    /\ pc = "loop" /\ idx < Len(opt.files)
    /\ opt.files[idx + 1] # "-"
    /\ r' = [isStdin |-> FALSE, fd |-> -1]
    /\ errs' = Append(errs, "cannot open")
    /\ outcome' = Append(outcome, "open_failed")
    /\ idx' = idx + 1
    /\ pc' = "loop"
    /\ UNCHANGED <<args, opt, disp, c, st, total, haveTotal, out,
                   exitStatus, nreads, nOpen>>
    /\ UNCHANGED <<srcChunks, nfinal>>
    /\ UNCHANGED hvars

\* readChunk returns n > 0 bytes: the engine of the branch processes them
ReadData ==
    /\ pc = "read" /\ nreads < MaxReads
    /\ \E chunk \in ReadChunks :
        LET res == IF opt.useAvx2
                   THEN processAvx2(chunk, c, st, EngineFlags(disp))
                   ELSE processScalar(chunk, c, st, EngineFlags(disp))
        IN  c' = res.out /\ st' = res.st
            /\ srcChunks' = Append(srcChunks, chunk)
    /\ nreads' = nreads + 1
    /\ UNCHANGED <<args, opt, disp, pc, idx, r, total, haveTotal, out, errs,
                   exitStatus, outcome, nOpen>>
    /\ UNCHANGED nfinal
    /\ UNCHANGED hvars

\* readChunk returns 0: end of stream, break
ReadEof ==
    /\ pc = "read"
    /\ outcome' = Append(outcome, "eof")
    /\ pc' = "finalize"
    /\ UNCHANGED <<args, opt, disp, idx, r, c, st, total, haveTotal, out,
                   errs, exitStatus, nreads, nOpen>>
    /\ UNCHANGED <<srcChunks, nfinal>>
    /\ UNCHANGED hvars

\* Variant of ReadFail that leaves the loop without finalizing.
ReadFailSkipsFinalize ==
    /\ pc = "read"
    /\ errs' = Append(errs, "read error")
    /\ outcome' = Append(outcome, "read_failed")
    /\ pc' = "close"
    /\ UNCHANGED <<args, opt, disp, idx, r, c, st, total, haveTotal, out,
                   exitStatus, nreads, nOpen>>
    /\ UNCHANGED <<srcChunks, nfinal>>
    /\ UNCHANGED hvars

\* Variant of ReadFail that reports the error and reads again.
ReadFailRetry ==
    /\ pc = "read"
    /\ errs' = Append(errs, "read error")
    /\ outcome' = Append(outcome, "read_failed")
    /\ pc' = "read"
    /\ UNCHANGED <<args, opt, disp, idx, r, c, st, total, haveTotal, out,
                   exitStatus, nreads, nOpen>>
    /\ UNCHANGED <<srcChunks, nfinal>>
    /\ UNCHANGED hvars

\* readChunk returns no value: message, break
ReadFail ==
    /\ pc = "read"
    /\ errs' = Append(errs, "read error")
    /\ outcome' = Append(outcome, "read_failed")
    /\ pc' = "finalize"
    /\ UNCHANGED <<args, opt, disp, idx, r, c, st, total, haveTotal, out,
                   exitStatus, nreads, nOpen>>
    /\ UNCHANGED <<srcChunks, nfinal>>
    /\ UNCHANGED hvars

\* finalizeAvx2 / finalizeScalar after the read loop
Finalize ==
    /\ pc = "finalize"
    /\ c' = IF opt.useAvx2
            THEN finalizeAvx2(c, st, disp.maxLine)
            ELSE finalizeScalar(c, st, disp.maxLine)
    /\ nfinal' = nfinal + 1
    /\ pc' = "close"
    /\ UNCHANGED <<args, opt, disp, idx, r, st, total, haveTotal, out, errs,
                   exitStatus, outcome, nreads, nOpen>>
    /\ UNCHANGED srcChunks
    /\ UNCHANGED hvars

\* Variant of Close that leaves the descriptor open.
CloseLeak ==
    /\ pc = "close"
    /\ pc' = "report"
    /\ UNCHANGED <<args, opt, disp, idx, r, c, st, total, haveTotal, out, errs,
                   exitStatus, outcome, nreads, nOpen>>
    /\ UNCHANGED <<srcChunks, nfinal>>
    /\ UNCHANGED hvars

\* r.close(): closes the descriptor of a file, never stdin
Close ==
    /\ pc = "close"
    /\ IF ~r.isStdin /\ r.fd >= 0
       THEN r' = [r EXCEPT !.fd = -1] /\ nOpen' = nOpen - 1
       ELSE UNCHANGED <<r, nOpen>>
    /\ pc' = "report"
    /\ UNCHANGED <<args, opt, disp, idx, c, st, total, haveTotal, out, errs,
                   exitStatus, outcome, nreads>>
    /\ UNCHANGED <<srcChunks, nfinal>>
    /\ UNCHANGED hvars

\* printCounts of the source's row, then its Counts folded into total;
\* the loop moves on
Report ==
    /\ pc = "report"
    /\ LET path == opt.files[idx + 1]
       IN  out' = Append(out, printCounts(c,
                     IF path = "-" THEN <<>> ELSE <<path>>, disp, idx + 1))
    /\ total' = AddTotal(total, c)
    /\ idx' = idx + 1
    /\ pc' = "loop"
    /\ UNCHANGED <<args, opt, disp, r, c, st, haveTotal, errs, exitStatus,
                   outcome, nreads, nOpen>>
    /\ UNCHANGED <<srcChunks, nfinal>>
    /\ UNCHANGED hvars

\* after the loop: the total row if haveTotal, then return 0
Exit ==
    /\ pc = "loop" /\ idx >= Len(opt.files)
    /\ out' = IF haveTotal
              THEN Append(out, printCounts(total, <<"total">>, disp, 0))
              ELSE out
    /\ exitStatus' = 0
    /\ pc' = "done"
    /\ UNCHANGED <<args, opt, disp, idx, r, c, st, total, haveTotal, errs,
                   outcome, nreads, nOpen>>
    /\ UNCHANGED <<srcChunks, nfinal>>
    /\ UNCHANGED hvars

Next ==
    \/ ParseOptions
    \/ OpenStdin
    \/ OpenFileOk
    \/ OpenFileFail
    \/ ReadData
    \/ ReadEof
    \/ ReadFail
    \/ Finalize
    \/ Close
    \/ Report
    \/ Exit

Spec == Init /\ [][Next]_vars

\* main on every selection of -l -w -c -m -L, with at most one file operand.
InitParse ==
    /\ EngIdle
    /\ args \in [sel : SUBSET {"-l", "-w", "-c", "-m", "-L"}, avx2 : BOOLEAN,
                 files : UNION {[1..k -> Paths] : k \in 0..1}]
    /\ opt = Options /\ disp = DisplayFlags
    /\ pc = "parse" /\ idx = 0 /\ r = Reader
    /\ c = Counts /\ st = ScalarState
    /\ total = Counts /\ haveTotal = FALSE
    /\ out = <<>> /\ errs = <<>> /\ exitStatus = -1
    /\ outcome = <<>> /\ nreads = 0 /\ nOpen = 0
    /\ srcChunks = <<>> /\ nfinal = 0

SpecParse == InitParse /\ [][Next]_vars

----------------------------------------------------------------------------
(* Properties of the engines (checked under SpecEng).                      *)

\* The scalar engine applied once to the whole stream, then finalized.
ScalarWhole ==
    LET w == processScalar(stream, Counts, ScalarState, fl)
    IN  finalizeScalar(w.out, w.st, fl.countMaxLine)

\* C1: whatever the chunk boundaries were, the scalar engine's Counts after
\* the last chunk and finalization equal those of one call on the whole
\* stream followed by finalization.
C1_ChunkingInvariant == hpc = "done" => sOut = ScalarWhole

\* C1 witness: "h\xC3\xA9llo\n" was cut between the two bytes of the
\* two-byte sequence, with words, chars and max-line-length counted.
C1_Witness ==
    /\ hpc = "done" /\ stream = Hello /\ lastCut = 2
    /\ fl.countWords /\ fl.countChars /\ fl.countMaxLine
    /\ sOut.wordCount = 1 /\ sOut.charCount = 6

\* C2: after the same chunks and finalization, the AVX2 engine's five
\* counters equal the scalar engine's, for every flag combination.
C2_EnginesAgree == hpc = "done" => aOut = sOut

\* C2 witness: a stream of four full lanes and one tail byte, handed over
\* as a single chunk, every lane ending in whitespace and every following
\* lane starting a word.
C2_Witness ==
    /\ hpc = "done" /\ stream = AllSpaces /\ lastCut = 0
    /\ Len(stream) = 4 * LaneWidth + 1
    /\ fl.countWords /\ fl.countLines /\ fl.countChars /\ fl.countMaxLine
    /\ aOut.wordCount = 5

\* The whitespace bytes: space, \n, \t, \r, \v, \f.
WhitespaceBytes == {32, 10, 9, 13, 11, 12}

\* Number of maximal runs of consecutive non-whitespace bytes of s.
WordRuns(s) ==
    Cardinality({i \in 1..Len(s) :
        /\ s[i] \notin WhitespaceBytes
        /\ (i = 1 \/ s[i - 1] \in WhitespaceBytes)})

\* C3: with word-counting enabled, after the stream is fully processed
\* wordCount is the number of maximal runs of non-whitespace bytes, in
\* either engine and for every chunking.
C3_WordCountIsRuns ==
    (hpc = "done" /\ fl.countWords) =>
        /\ sOut.wordCount = WordRuns(stream)
        /\ aOut.wordCount = WordRuns(stream)

\* C3 witness: "a\tb\rc\vd\fe" cut inside the stream; its five one-byte
\* words, each separated by a different whitespace byte, are counted.
C3_Witness ==
    /\ hpc = "done" /\ fl.countWords
    /\ stream = AllSpaces /\ lastCut = 3
    /\ sOut.wordCount = 5

\* Display units of s[i..j]: code points (lead bytes) when chars are
\* counted, bytes otherwise.
Units(s, i, j, chars) ==
    Cardinality({k \in i..j : ~chars \/ (s[k] \div 64) # 2})

Newlines(s) == {i \in 1..Len(s) : s[i] = 10}

\* First byte of the line that position i of s belongs to.
LineStart(s, i) ==
    LET before == {k \in Newlines(s) : k < i}
    IN  IF before = {} THEN 1
        ELSE (CHOOSE k \in before : \A m \in before : m <= k) + 1

SetMax(S) == IF S = {} THEN 0 ELSE CHOOSE x \in S : \A y \in S : y <= x

\* Longest newline-terminated line of s, the newline not counted.
MaxTerminatedLine(s, chars) ==
    SetMax({Units(s, LineStart(s, i), i - 1, chars) : i \in Newlines(s)})

\* Display units after the last newline of s.
TailUnits(s, chars) == Units(s, LineStart(s, Len(s) + 1), Len(s), chars)

\* C4 (as claimed): with max-line-length enabled, a newline-terminated line
\* counts the display units before its newline and not the newline; for
\* "h\xC3\xA9llo\n" that is 5 with char-counting and 6 without.
C4_NewlineNotCounted ==
    (hpc = "done" /\ fl.countMaxLine /\ stream # <<>>
        /\ stream[Len(stream)] = 10) =>
        /\ sOut.maxLineLength = MaxTerminatedLine(stream, fl.countChars)
        /\ aOut.maxLineLength = MaxTerminatedLine(stream, fl.countChars)
        /\ (stream = Hello =>
                sOut.maxLineLength = IF fl.countChars THEN 5 ELSE 6)

\* C5: with max-line-length enabled, after the last chunk and finalization
\* maxLineLength is at least the number of display units after the last
\* newline, in either engine; "abc" without char-counting gives 3, and
\* lineCount 0.
C5_FinalLineFolded ==
    (hpc = "done" /\ fl.countMaxLine) =>
        /\ sOut.maxLineLength >= TailUnits(stream, fl.countChars)
        /\ aOut.maxLineLength >= TailUnits(stream, fl.countChars)
        /\ (stream = Abc /\ ~fl.countChars =>
                /\ sOut.maxLineLength = 3 /\ aOut.maxLineLength = 3
                /\ sOut.lineCount = 0 /\ aOut.lineCount = 0)

\* C5 witness: "abc", no newline, lines and max-line-length counted in
\* byte mode, finalized.
C5_Witness ==
    /\ hpc = "done" /\ stream = Abc
    /\ fl.countMaxLine /\ fl.countLines /\ ~fl.countChars
    /\ sOut.maxLineLength = 3 /\ sOut.lineCount = 0

\* C11: in every state of either engine, before and after finalization,
\* each counter whose selection flag is off is zero.
C11_DisabledStayZero ==
    \A o \in {sOut, aOut} :
        /\ ~fl.countLines => o.lineCount = 0
        /\ ~fl.countWords => o.wordCount = 0
        /\ ~fl.countBytes => o.byteCount = 0
        /\ ~fl.countChars => o.charCount = 0
        /\ ~fl.countMaxLine => o.maxLineLength = 0

\* C11 witness: "h\xC3\xA9llo\n" went through full lanes and a tail with
\* lines and max-line-length off and the other three metrics on.
C11_Witness ==
    /\ hpc = "done" /\ stream = Hello /\ lastCut = 0
    /\ ~fl.countLines /\ ~fl.countMaxLine
    /\ fl.countWords /\ fl.countBytes /\ fl.countChars
    /\ aOut.lineCount = 0 /\ aOut.maxLineLength = 0
    /\ aOut.byteCount = 7 /\ aOut.charCount = 6 /\ aOut.wordCount = 1

\* Bytes of s whose two high bits are not 10.
LeadBytes(s) == Cardinality({i \in 1..Len(s) : (s[i] \div 64) # 2})

\* C12: with char-counting enabled, after the stream is fully processed
\* charCount is the number of bytes that are no continuation bytes, in
\* either engine and wherever the chunk boundaries fell.
C12_CharCountIsLeadBytes ==
    (hpc = "done" /\ fl.countChars) =>
        /\ sOut.charCount = LeadBytes(stream)
        /\ aOut.charCount = LeadBytes(stream)

\* C12 witness: "h\xC3\xA9llo\n" cut between the two bytes of its two-byte
\* sequence: six code points in seven bytes.
C12_Witness ==
    /\ hpc = "done" /\ fl.countChars /\ fl.countBytes
    /\ stream = Hello /\ lastCut = 2
    /\ sOut.charCount = 6 /\ sOut.byteCount = 7

\* C13: an empty stream leaves all five counters of either engine at zero
\* after finalization, for every flag combination.
C13_EmptyInputAllZero ==
    (hpc = "done" /\ stream = <<>>) => (sOut = Counts /\ aOut = Counts)

\* C13 witness: no byte was read, every flag is on, finalization ran.
C13_Witness ==
    /\ hpc = "done" /\ stream = <<>>
    /\ fl.countLines /\ fl.countWords /\ fl.countBytes
    /\ fl.countChars /\ fl.countMaxLine
    /\ aOut.maxLineLength = 0 /\ sOut.maxLineLength = 0

\* C17 (as claimed): once a byte has been processed, the carried whitespace
\* flag of either engine is the classification of the latest byte, for
\* every flag combination.
C17_CarryIsLastByteClass ==
    stream # <<>> =>
        LET ws == stream[Len(stream)] \in WhitespaceBytes
        IN  /\ sSt.prevSpace = ws
            /\ aSt.prevSpace = IF ws THEN 1 ELSE 0

\* The Counts fields of now are not below those of before.
NotBelow(before, now) ==
    /\ before.lineCount <= now.lineCount
    /\ before.wordCount <= now.wordCount
    /\ before.byteCount <= now.byteCount
    /\ before.charCount <= now.charCount
    /\ before.maxLineLength <= now.maxLineLength

AllFlags ==
    /\ fl.countLines /\ fl.countWords /\ fl.countBytes
    /\ fl.countChars /\ fl.countMaxLine

\* The mutual bounds of C19 on one engine's Counts and running line length.
MutualBounds(o, cll) ==
    /\ o.lineCount <= o.charCount
    /\ o.charCount <= o.byteCount
    /\ 2 * o.wordCount <= o.byteCount + 1
    /\ cll <= o.charCount
    /\ o.maxLineLength <= o.charCount

\* C19: with all five flags on, in every state lineCount <= charCount <=
\* byteCount, 2 * wordCount <= byteCount + 1, currentLineLength <= charCount
\* and maxLineLength <= charCount, in either engine; and no counter
\* decreases from one step to the next.
C19_MutualBounds ==
    /\ [](AllFlags =>
            /\ MutualBounds(sOut, sSt.currentLineLength)
            /\ MutualBounds(aOut, aSt.currentLineLength))
    /\ [][AllFlags => (NotBelow(sOut, sOut') /\ NotBelow(aOut, aOut'))]_vars

\* C19 witness: "a \xA9\n" read in two chunks of one lane each: two words,
\* one line, three code points, four bytes.
C19_Witness ==
    /\ hpc = "run" /\ AllFlags
    /\ stream = <<97, 32, 169, 10>> /\ lastCut = 2
    /\ sOut.lineCount = 1 /\ sOut.charCount = 3 /\ sOut.byteCount = 4
    /\ sOut.wordCount = 2 /\ sOut.maxLineLength = 3 /\ aOut = sOut

----------------------------------------------------------------------------
(* Properties of main (checked under Spec).                                *)

\* Positions in out of the rows printed for source i (1-based; 0: total).
RowsOf(i) == {k \in 1..Len(out) : out[k].src = i}

\* Sources visited so far whose open succeeded (they were read and counted).
Processed == {i \in 1..Len(outcome) : outcome[i] # "open_failed"}

\* Sources visited so far that failed to open or failed while being read.
FailedSources ==
    {i \in 1..Len(outcome) : outcome[i] \in {"open_failed", "read_failed"}}

\* The per-source Counts of the rows out[1..k], the four sums added and
\* the maximum of maxLineLength taken, over the sources in keep.
RECURSIVE Aggregate(_, _)
Aggregate(k, keep) ==
    IF k = 0 THEN Counts
    ELSE LET rest == Aggregate(k - 1, keep)
             x == out[k].cnt
         IN  IF out[k].src \notin keep THEN rest
             ELSE [lineCount |-> rest.lineCount + x.lineCount,
                   wordCount |-> rest.wordCount + x.wordCount,
                   byteCount |-> rest.byteCount + x.byteCount,
                   charCount |-> rest.charCount + x.charCount,
                   maxLineLength |->
                       IF x.maxLineLength > rest.maxLineLength
                       THEN x.maxLineLength ELSE rest.maxLineLength]

\* C6 (as claimed): a source whose read failed has no row in the output,
\* and its partial counts are not part of the running total.
C6_ReadFailureDiscarded ==
    /\ \A i \in 1..Len(outcome) :
          outcome[i] = "read_failed" => RowsOf(i) = {}
    /\ pc \in {"loop", "done"} =>
          total = Aggregate(Len(out),
                      {i \in 1..Len(outcome) : outcome[i] = "eof"})

\* C7 (as claimed): main's return value tells a run with a failed source
\* from a run in which every source succeeded.
C7_ExitStatusReflectsFailure ==
    pc = "done" => (exitStatus # 0 <=> FailedSources # {})

\* C8 (as claimed): a total row is emitted only when more than one source
\* was opened and counted.
C8_TotalOnlyIfProcessedMany ==
    RowsOf(0) # {} => Cardinality(Processed) > 1

\* C8 (amended): the total row is emitted exactly when more than one
\* source was listed, once, as the last row, and only at the end.
C8_TotalIffListedMany ==
    /\ pc # "done" => RowsOf(0) = {}
    /\ pc = "done" =>
          /\ (RowsOf(0) # {} <=> Len(opt.files) > 1)
          /\ RowsOf(0) \subseteq {Len(out)}

\* C8 witness: two sources listed, one of them failed to open, the run
\* ended and wrote a total row after the single source row.
C8_Witness ==
    /\ pc = "done" /\ Len(opt.files) = 2
    /\ Cardinality(Processed) = 1
    /\ Len(out) = 2 /\ out[2].src = 0 /\ out[2].label = <<"total">>

\* C9: the running total is the aggregate of the rows reported so far: the
\* four sums added, maxLineLength the maximum; the total row prints it.
C9_TotalIsAggregate ==
    /\ pc # "parse" => total = Aggregate(Len(out), 1..Len(opt.files))
    /\ \A k \in RowsOf(0) : out[k].cnt = Aggregate(k - 1, 1..Len(opt.files))

\* C9 witness: two sources were reported with different non-zero
\* maxLineLength, and the total row shows the larger one and the sum of
\* the byte counts.
C9_Witness ==
    /\ pc = "done" /\ Len(out) = 3 /\ out[3].src = 0
    /\ out[1].cnt.maxLineLength = 3 /\ out[2].cnt.maxLineLength = 4
    /\ out[3].cnt.maxLineLength = 4
    /\ out[1].cnt.byteCount > 0 /\ out[2].cnt.byteCount > 0
    /\ out[3].cnt.byteCount = out[1].cnt.byteCount + out[2].cnt.byteCount

\* State part of C10: a source that failed to open has no row; at the end
\* every listed source was visited and every source that opened has its
\* one row.
C10_Rows ==
    /\ \A i \in 1..Len(outcome) :
          outcome[i] = "open_failed" => RowsOf(i) = {}
    /\ pc = "done" =>
          /\ Len(outcome) = Len(opt.files)
          /\ \A i \in Processed : Cardinality(RowsOf(i)) = 1

\* Step part of C10: the step on which an open fails.
OpenFailedStep ==
    /\ Len(outcome') = Len(outcome) + 1
    /\ outcome'[Len(outcome')] = "open_failed"

\* C10: a source that fails to open emits no row and leaves the running
\* total unchanged, and the loop goes on to the next source: every later
\* source is still opened, counted and reported.
C10_OpenFailureSkipsOnlyThatSource ==
    /\ []C10_Rows
    /\ [][OpenFailedStep =>
            (out' = out /\ total' = total /\ pc' = "loop" /\ idx' = idx + 1)]_vars

\* C10 witness: the first source failed to open, the second was opened,
\* counted and reported.
C10_Witness ==
    /\ pc = "done" /\ Len(outcome) = 2
    /\ outcome[1] = "open_failed" /\ outcome[2] = "eof"
    /\ RowsOf(1) = {} /\ out[1].src = 2 /\ out[1].cnt.byteCount > 0

\* The engine state a source starts from, in the branch main takes.
FreshState == IF opt.useAvx2 THEN Avx2State ELSE ScalarState

\* The engine of the branch main takes, applied to chunks[1..k] in order,
\* starting from zero Counts and a fresh state.
RECURSIVE RunAlone(_, _)
RunAlone(chunks, k) ==
    IF k = 0 THEN [out |-> Counts, st |-> FreshState]
    ELSE LET before == RunAlone(chunks, k - 1)
         IN  IF opt.useAvx2
             THEN processAvx2(chunks[k], before.out, before.st, EngineFlags(disp))
             ELSE processScalar(chunks[k], before.out, before.st, EngineFlags(disp))

\* The Counts a source with these chunks gets when it is the only source.
AloneCounts(chunks) ==
    LET w == RunAlone(chunks, Len(chunks))
    IN  IF opt.useAvx2 THEN finalizeAvx2(w.out, w.st, disp.maxLine)
        ELSE finalizeScalar(w.out, w.st, disp.maxLine)

\* C14: carry-state does not survive from one source to the next: before
\* the first chunk of every source prevSpace is true, currentLineLength is
\* 0 and the Counts are zero, and the Counts a source is reported with are
\* those of its own chunks processed alone.
C14_NoCarryAcrossSources ==
    /\ (pc = "read" /\ nreads = 0) => (c = Counts /\ st = FreshState)
    /\ pc \in {"close", "report"} => c = AloneCounts(srcChunks)
    /\ (pc = "loop" /\ idx > 0 /\ outcome[idx] # "open_failed") =>
          /\ out[Len(out)].src = idx
          /\ out[Len(out)].cnt = AloneCounts(srcChunks)

\* C14 witness: the first source was "ab\nc" (it ends inside a word, on an
\* unterminated line); the second source, also "ab\nc", is about to be
\* reported with its own two words and longest line.
C14_Witness ==
    /\ pc = "report" /\ idx = 1 /\ disp.words /\ disp.maxLine
    /\ Len(out) = 1 /\ out[1].cnt.byteCount = 4 /\ out[1].cnt.wordCount = 2
    /\ srcChunks = << <<97, 98, 10, 99>> >>
    /\ c.wordCount = 2 /\ c.maxLineLength = 3

\* C15: for every opened source finalization runs exactly once: not before
\* the read loop has ended (on a zero-length read or on a failure), and
\* before the source's row is printed; no chunk is processed after it.
C15_FinalizedExactlyOnce ==
    /\ [](/\ pc \in {"read", "finalize"} => nfinal = 0
          /\ pc \in {"close", "report"} => nfinal = 1)
    /\ [][/\ nfinal' = nfinal + 1 =>
                (pc = "finalize" /\ Len(outcome) = idx + 1
                    /\ outcome[idx + 1] \in {"eof", "read_failed"})
          /\ Len(srcChunks') = Len(srcChunks) + 1 => nfinal = 0
          /\ (Len(out') = Len(out) + 1 /\ out'[Len(out')].src > 0) =>
                (nfinal = 1 /\ nfinal' = 1)]_vars

\* C15 witness: a source whose read failed after two chunks has been
\* finalized once and is about to be reported.
C15_Witness ==
    /\ pc = "report" /\ nfinal = 1 /\ Len(srcChunks) = 2
    /\ outcome[Len(outcome)] = "read_failed"

\* The flags the command line asks for: the ones given, or lines, words
\* and bytes when none is given.
ExpectedFlags == IF args.sel = {} THEN {"-l", "-w", "-c"} ELSE args.sel

\* C16: from the end of option parsing to the end of the run, the flags
\* are exactly the selected ones, or exactly lines, words and bytes when
\* none was selected; so at least one is on, and they never change.
C16_FlagsAfterParsing ==
    pc # "parse" =>
        /\ disp.lines = ("-l" \in ExpectedFlags)
        /\ disp.words = ("-w" \in ExpectedFlags)
        /\ disp.bytes = ("-c" \in ExpectedFlags)
        /\ disp.chars = ("-m" \in ExpectedFlags)
        /\ disp.maxLine = ("-L" \in ExpectedFlags)
        /\ opt.optLines = disp.lines /\ opt.optWords = disp.words
        /\ opt.optBytes = disp.bytes /\ opt.optChars = disp.chars
        /\ opt.optMaxLine = disp.maxLine
        /\ (disp.lines \/ disp.words \/ disp.bytes \/ disp.chars
                \/ disp.maxLine)

\* C16 witness: only -L was given; the run ended and its one row has the
\* single column of maxLineLength.
C16_Witness ==
    /\ pc = "done" /\ args.sel = {"-L"}
    /\ disp.maxLine /\ ~disp.lines /\ ~disp.words /\ ~disp.bytes
    /\ Len(out) = 1 /\ Len(out[1].cols) = 1

\* A step on which readChunk is called on the current source.
ReadIssued ==
    \/ Len(srcChunks') = Len(srcChunks) + 1
    \/ /\ Len(outcome') = Len(outcome) + 1
       /\ outcome'[Len(outcome')] \in {"eof", "read_failed"}

\* C18: a read failure ends the read loop of its source: no read is issued
\* on a source whose loop has ended; and the loop over the sources goes
\* on: at exit every listed source has been visited, and every one that
\* opened was read to its end of stream or to its failure.
C18_ReadFailureTerminalForSourceOnly ==
    /\ [](/\ Len(outcome) <= idx + 1
          /\ pc = "read" => Len(outcome) = idx
          /\ pc = "done" => Len(outcome) = Len(opt.files))
    /\ [][ReadIssued => (pc = "read" /\ Len(outcome) = idx)]_vars

\* C18 witness: the first source failed on its first read, the second was
\* read to its end and reported with its bytes.
C18_Witness ==
    /\ pc = "done" /\ outcome = <<"read_failed", "eof">>
    /\ disp.bytes /\ out[1].cnt.byteCount = 0 /\ out[2].cnt.byteCount > 0

\* C20: at most one descriptor is open at any time; it is closed after the
\* read loop, on both ways out of it, before the row is printed, before the
\* next source is opened and before the total row; closing a Reader on
\* standard input closes nothing.
C20_OneDescriptorClosedInTime ==
    /\ [](/\ nOpen \in {0, 1}
          /\ pc \in {"parse", "loop", "report", "done"} => nOpen = 0
          /\ nOpen = 1 => (~r.isStdin /\ r.fd >= 0))
    /\ [][/\ Len(out') > Len(out) => nOpen = 0
          /\ (pc = "close" /\ r.isStdin) => (r' = r /\ nOpen' = nOpen)
          /\ nOpen' > nOpen => nOpen = 0]_vars

\* C20 witness: the second source, a file whose read failed after a chunk,
\* has been closed and is about to be reported.
C20_Witness ==
    /\ pc = "report" /\ idx = 1 /\ ~r.isStdin /\ r.fd = -1 /\ nOpen = 0
    /\ outcome[2] = "read_failed" /\ nreads = 1

============================================================================
